---- MODULE Spec2Model ----
(***************************************************************************)
(* env.doc.generator: a verification model of                               *)
(*   - the primary documentation pipeline (src/index.js: Compiler,          *)
(*     loadConfig, parseEnvFile, generateMarkdown, generateDocs),           *)
(*   - the usage-audit mode (src/src/index.js: scanEnvUsage, started by     *)
(*     src/bin/env-scan.js).                                                *)
(* Text is modelled as a sequence of one-character strings, so that         *)
(* splitting, trimming and regular-expression matching are computed the     *)
(* way String.prototype.split/trim/match compute them.                      *)
(***************************************************************************)
EXTENDS Integers, Sequences, FiniteSets, TLC

VARIABLES
    \* ---- primary mode (src/index.js) ----
    pc,            \* position inside generateDocs
    config,        \* the configuration object returned by loadConfig
    compiler,      \* Compiler instance: [beforeParseFn, beforeOutputFn]
    pluginIdx,     \* index of the plugin the loading loop is at
    tapIdx,        \* number of tap calls the current plugin's apply() has made
    files,         \* the declaration files findEnvFiles returned
    fileIdx,       \* index of the declaration file the loop is at
    variables,     \* the mapping of the file being processed
    envData,       \* file -> mapping, in insertion order
    markdown,      \* the local `markdown` of generateDocs
    baseline,      \* what generateMarkdown(envData) returned
    outFile,       \* content of the output file on disk
    exitCode,      \* process exit status
    events,        \* log of the calls made so far
    \* ---- usage-audit mode (src/src/index.js) ----
    spc,           \* position inside scanEnvUsage
    envNames,      \* Object.keys(dotenv.parse(envContent))
    nScanFiles,    \* number of files glob() returned
    scanIdx,       \* number of files the scanning loop has gone through
    content,       \* the local `content` of the scanning loop
    variableUsage, \* name -> [occurrences, count]
    report,        \* the report file written: [file, usage]
    scanExit,      \* exit status of env-scan
    \* ---- parseEnvFile on its own ----
    blocks,        \* the blocks the declaration file is made of
    declText,      \* the text of the declaration file
    parsed         \* what parseEnvFile returned for it

docsVars == <<pc, config, compiler, pluginIdx, tapIdx, files, fileIdx, variables,
              envData, markdown, baseline, outFile, exitCode, events>>
scanVars == <<spc, envNames, nScanFiles, scanIdx, content, variableUsage,
              report, scanExit>>
parseVars == <<blocks, declText, parsed>>
vars == <<docsVars, scanVars, parseVars>>

None == "none"

\* the output file before fs.writeFile
NotWritten == [written |-> FALSE, content |-> <<>>]

----------------------------------------------------------------------------
(* Text helpers                                                            *)

SetMin(S) == CHOOSE x \in S : \A y \in S : x <= y
SetMax(S) == CHOOSE x \in S : \A y \in S : x >= y

\* String.prototype.trim strips these (the ones the inputs use)
WS == {" ", "\t", "\r"}

Trim(s) ==
    LET keep == {i \in 1..Len(s) : s[i] \notin WS}
    IN  IF keep = {} THEN <<>> ELSE SubSeq(s, SetMin(keep), SetMax(keep))

StartsWith(s, c) == Len(s) >= 1 /\ s[1] = c

Includes(s, c) == \E i \in 1..Len(s) : s[i] = c

IndexOf(s, c) == SetMin({i \in 1..Len(s) : s[i] = c})

RECURSIVE Split(_, _)
Split(s, c) ==
    IF ~Includes(s, c) THEN <<s>>
    ELSE <<SubSeq(s, 1, IndexOf(s, c) - 1)>>
         \o Split(SubSeq(s, IndexOf(s, c) + 1, Len(s)), c)

RECURSIVE Join(_, _)
Join(parts, sep) ==
    IF parts = <<>> THEN <<>>
    ELSE IF Len(parts) = 1 THEN parts[1]
    ELSE parts[1] \o sep \o Join(Tail(parts), sep)

RECURSIVE Concat(_)
Concat(parts) == IF parts = <<>> THEN <<>> ELSE parts[1] \o Concat(Tail(parts))

NL == <<"\n">>

----------------------------------------------------------------------------
(* A JavaScript object with string keys: its own properties in insertion   *)
(* order, each entry [key, value, description].                            *)

PROTO == <<"_","_","p","r","o","t","o","_","_">>

ObjKeys(obj) == [i \in 1..Len(obj) |-> obj[i].key]

ObjHas(obj, k) == \E i \in 1..Len(obj) : obj[i].key = k

ObjGet(obj, k) == obj[CHOOSE i \in 1..Len(obj) : obj[i].key = k]

\* obj[k] = {value, description}: an existing key keeps its position; the
\* key __proto__ reaches the setter of Object.prototype and adds no property.
ObjSet(obj, k, v, d) ==
    IF k = PROTO THEN obj
    ELSE IF ObjHas(obj, k)
    THEN [i \in 1..Len(obj) |->
             IF obj[i].key = k THEN [key |-> k, value |-> v, description |-> d]
             ELSE obj[i]]
    ELSE Append(obj, [key |-> k, value |-> v, description |-> d])

----------------------------------------------------------------------------
(* parseEnvFile (src/index.js:76-111)                                      *)

\* (a slip: the pending comments are not cleared after a variable)
ParseLineAddsVariable_KeepsComments(st, line) ==
    LET eq    == IndexOf(line, "=")
        key   == Trim(SubSeq(line, 1, eq - 1))
        value == Trim(SubSeq(line, eq + 1, Len(line)))
    IN  [variables |-> ObjSet(st.variables, key, value,
                              Join(st.currentComment, NL)),
         currentComment |-> st.currentComment]

\* the body of lines.forEach: st = [variables, currentComment]
ParseLineAddsVariable(st, line) ==
    LET eq    == IndexOf(line, "=")
        key   == Trim(SubSeq(line, 1, eq - 1))
        value == Trim(SubSeq(line, eq + 1, Len(line)))
    IN  [variables |-> ObjSet(st.variables, key, value,
                              Join(st.currentComment, NL)),
         currentComment |-> <<>>]

ParseLine(st, rawLine) ==
    LET line == Trim(rawLine)
    IN  IF StartsWith(line, "#")
        THEN [st EXCEPT !.currentComment = Append(@, Trim(Tail(line)))]
        ELSE IF Includes(line, "=")
        THEN ParseLineAddsVariable(st, line)
        ELSE st

RECURSIVE ParseLines(_, _)
ParseLines(st, lines) ==
    IF lines = <<>> THEN st
    ELSE ParseLines(ParseLine(st, Head(lines)), Tail(lines))

\* What fs.readFile(filePath, 'utf8') gives: the text, or a rejection
Readable(text) == [ok |-> TRUE, text |-> text]
Unreadable == [ok |-> FALSE, text |-> <<>>]

\* a rejected read is caught and gives the empty mapping
parseEnvFile(read) ==
    IF ~read.ok THEN <<>>
    ELSE ParseLines([variables |-> <<>>, currentComment |-> <<>>],
                    Split(read.text, "\n")).variables

----------------------------------------------------------------------------
(* Declaration files: a file is a sequence of blocks, each a run of        *)
(* comment lines followed by one KEY=VALUE line.                           *)

MaxBlocks == 2

T_ApiKeyComment == <<"A","P","I"," ","k","e","y">>
T_EqComment == <<"a","=","b">>
K_API_KEY == <<"A","P","I","_","K","E","Y">>
K_DB_HOST == <<"D","B","_","H","O","S","T">>
K_SECRET_TOKEN == <<"S","E","C","R","E","T","_","T","O","K","E","N">>
K_MY_SECRET_KEY == <<"M","Y","_","S","E","C","R","E","T","_","K","E","Y">>
V_abc123 == <<"a","b","c","1","2","3">>
V_xy == <<"x","=","y">>

CommentRuns ==
    { <<>>, <<T_ApiKeyComment>>, <<T_ApiKeyComment, T_EqComment>>, <<<<>>>> }

BlockKeys == {K_API_KEY, K_DB_HOST, PROTO}

\* plain: "# text" and "KEY=abc123"; otherwise indented, spaced around the
\* first "=", with a value holding "=" and a carriage return at the end
Blocks ==
    [comments : CommentRuns, key : BlockKeys, plain : BOOLEAN]

BlockValue(b) == IF b.plain THEN V_abc123 ELSE V_xy

CommentLine(b, t) ==
    IF b.plain THEN <<"#", " ">> \o t ELSE <<" ", " ", "#">> \o t \o <<" ">>

KeyValueLine(b) ==
    IF b.plain THEN b.key \o <<"=">> \o BlockValue(b)
    ELSE <<" ">> \o b.key \o <<" ", "=", " ">> \o BlockValue(b) \o <<" ", "\r">>

BlockLines(b) ==
    [i \in 1..Len(b.comments) |-> CommentLine(b, b.comments[i])]
    \o <<KeyValueLine(b)>>

RECURSIVE FileLines(_)
FileLines(bs) ==
    IF bs = <<>> THEN <<>> ELSE BlockLines(Head(bs)) \o FileLines(Tail(bs))

\* the text of the file: its lines, each ended by a newline
FileText(bs) == Concat([i \in 1..Len(FileLines(bs)) |-> FileLines(bs)[i] \o NL])

SeqsUpTo(S, n) == UNION {[1..k -> S] : k \in 0..n}

NotParsed == [state |-> "pending", variables |-> <<>>]

InitParse ==
    /\ blocks \in SeqsUpTo(Blocks, MaxBlocks)
    /\ declText = FileText(blocks)
    /\ parsed = NotParsed
    \* the two programs are not running
    /\ pc = "idle"
    /\ config = None
    /\ compiler = None
    /\ pluginIdx = 0
    /\ tapIdx = 0
    /\ files = <<>>
    /\ fileIdx = 0
    /\ variables = <<>>
    /\ envData = <<>>
    /\ markdown = <<>>
    /\ baseline = <<>>
    /\ outFile = NotWritten
    /\ exitCode = None
    /\ events = <<>>
    /\ spc = "idle"
    /\ envNames = <<>>
    /\ nScanFiles = 0
    /\ scanIdx = 0
    /\ content = <<>>
    /\ variableUsage = <<>>
    /\ report = [written |-> FALSE, file |-> None, usage |-> <<>>]
    /\ scanExit = None

\* parseEnvFile on a file that is read
ParseReadable ==
    /\ parsed.state = "pending"
    /\ parsed' = [state |-> "parsed",
                  variables |-> parseEnvFile(Readable(declText))]
    /\ UNCHANGED <<blocks, declText>>

\* parseEnvFile on a file whose read is rejected
ParseUnreadable ==
    /\ parsed.state = "pending"
    /\ parsed' = [state |-> "unreadable",
                  variables |-> parseEnvFile(Unreadable)]
    /\ UNCHANGED <<blocks, declText>>

----------------------------------------------------------------------------
(* Usage-audit mode: scanEnvUsage (src/src/index.js), run by                *)
(* src/bin/env-scan.js                                                      *)

MaxScanFiles == 2
MaxUses == 3

\* "." in a regular expression: any character but a line terminator
ANY == "ANY"

L_ProcessEnvDot == <<"p","r","o","c","e","s","s",".","e","n","v",".">>
L_ProcessEnvBracketSq == <<"p","r","o","c","e","s","s","[","'","e","n","v","'","]","[","'">>
L_ProcessEnvBracketDq == <<"p","r","o","c","e","s","s","[","\"","e","n","v","\"","]","[","\"">>
L_ProcessBracketEnv == <<"p","r","o","c","e","s","s","[","'","e","n","v","'","]">>
L_Process == <<"p","r","o","c","e","s","s">>
L_EnvBracketSq == <<"e","n","v","[","'">>
L_RequireDotenvConfig == <<"r","e","q","u","i","r","e","(","'","d","o","t","e","n","v","'",")",".","c","o","n","f","i","g","(",")">>
L_Config == <<"c","o","n","f","i","g","(",")">>
L_CloseSq == <<"'","]">>
L_CloseDq == <<"\"","]">>
K_API_KEY_BACKUP == <<"A","P","I","_","K","E","Y","_","B","A","C","K","U","P">>

\* The seven alternatives of the regular expression built for `variable`
\* (a name of letters, digits and "_"), in order. In the template literals
\* "\\." gives an escaped dot and "\." a bare dot, which matches any
\* character. open: the alternative ends with the name itself.
UsagePatterns(variable) ==
    << [elems |-> L_ProcessEnvDot \o variable, open |-> TRUE],
       [elems |-> L_ProcessEnvBracketSq \o variable \o L_CloseSq,
        open |-> FALSE],
       [elems |-> L_ProcessEnvBracketDq \o variable \o L_CloseDq,
        open |-> FALSE],
       [elems |-> L_ProcessBracketEnv \o <<ANY>> \o variable, open |-> TRUE],
       [elems |-> L_Process \o <<ANY>> \o L_EnvBracketSq \o variable \o L_CloseSq,
        open |-> FALSE],
       [elems |-> L_RequireDotenvConfig \o <<ANY>> \o variable, open |-> TRUE],
       [elems |-> L_Config \o <<ANY>> \o variable, open |-> TRUE] >>

ElemMatches(e, c) == IF e = ANY THEN c \notin {"\n", "\r"} ELSE e = c

MatchesAt(pat, s, i) ==
    /\ i + Len(pat.elems) - 1 <= Len(s)
    /\ \A j \in 1..Len(pat.elems) : ElemMatches(pat.elems[j], s[i + j - 1])

\* length of the match of the alternation at position i, 0 when none: the
\* first alternative that matches there is taken
MatchLenAt(pats, s, i) ==
    LET hit == {k \in 1..Len(pats) : MatchesAt(pats[k], s, i)}
    IN  IF hit = {} THEN 0 ELSE Len(pats[SetMin(hit)].elems)

\* content.match(regex) with the g flag: the matches found left to right,
\* each search resuming where the previous match ended
RECURSIVE CountFrom(_, _, _)
CountFrom(pats, s, i) ==
    IF i > Len(s) THEN 0
    ELSE LET n == MatchLenAt(pats, s, i)
         IN  IF n > 0 THEN 1 + CountFrom(pats, s, i + n)
             ELSE CountFrom(pats, s, i + 1)


\* Scanned files: up to MaxUses statements, each one access followed by ";\n"
Accesses ==
    { L_ProcessEnvDot \o K_API_KEY,
      L_ProcessEnvDot \o K_API_KEY_BACKUP,
      L_Process \o <<".">> \o L_EnvBracketSq \o K_API_KEY \o L_CloseSq,
      L_Config \o <<".">> \o K_DB_HOST }

StatementEnd == <<";", "\n">>

SourceText(accesses) ==
    Concat([i \in 1..Len(accesses) |-> accesses[i] \o StatementEnd])

SourceTexts == {SourceText(a) : a \in SeqsUpTo(Accesses, MaxUses)}

\* Object.keys(dotenv.parse(envContent)) for the .env files considered
EnvNameLists ==
    { <<K_API_KEY, K_DB_HOST>>, <<K_API_KEY_BACKUP, K_API_KEY>>, <<K_DB_HOST>> }

ScanNames == UNION {{names[i] : i \in 1..Len(names)} : names \in EnvNameLists}

\* content.match(regex) for every text and name considered, computed once
MatchCounts ==
    [text \in SourceTexts |->
        [variable \in ScanNames |-> CountFrom(UsagePatterns(variable), text, 1)]]

\* matches.length, 0 standing for the null of no match
MatchCount(text, variable) == MatchCounts[text][variable]

\* (a slip: one is added per file instead of the number of matches)
RecordUsage_CountsFiles(usage, file, n) ==
    IF n > 0
    THEN [usage EXCEPT !.count = @ + 1,
                       !.occurrences = Append(@, [file |-> file, count |-> n])]
    ELSE usage

\* if (matches) { count += matches.length; occurrences.push({file, count}) }
RecordUsage(usage, file, n) ==
    IF n > 0
    THEN [usage EXCEPT !.count = @ + n,
                       !.occurrences = Append(@, [file |-> file, count |-> n])]
    ELSE usage

\* the body of the loop over files, once the file is read
ScanContent(usages, names, file, text) ==
    [i \in 1..Len(usages) |->
        RecordUsage(usages[i], file, MatchCount(text, names[i]))]

OutputFormats == {"md", "json", "html"}

\* the file each branch of the switch on options.output writes
ReportFile(format) ==
    CASE format = "json" -> "env-usage.json"
      [] format = "html" -> "env-usage.html"
      [] OTHER -> "env-usage.md"

InitScan ==
    /\ spc = "start"
    /\ envNames = <<>>
    /\ nScanFiles \in 0..MaxScanFiles
    /\ scanIdx = 0
    /\ content = <<>>
    /\ variableUsage = <<>>
    /\ report = [written |-> FALSE, file |-> None, usage |-> <<>>]
    /\ scanExit = None
    \* the primary mode is not running
    /\ pc = "idle"
    /\ config = None
    /\ compiler = None
    /\ pluginIdx = 0
    /\ tapIdx = 0
    /\ files = <<>>
    /\ fileIdx = 0
    /\ variables = <<>>
    /\ envData = <<>>
    /\ markdown = <<>>
    /\ baseline = <<>>
    /\ outFile = NotWritten
    /\ exitCode = None
    /\ events = <<>>
    /\ blocks = <<>>
    /\ declText = <<>>
    /\ parsed = [state |-> "idle", variables |-> <<>>]

\* fs.readFile(envPath) rejects: scanEnvUsage throws, env-scan exits 1
ScanEnvMissing ==
    /\ spc = "start"
    /\ spc' = "env_missing"
    /\ scanExit' = 1
    /\ UNCHANGED <<envNames, nScanFiles, scanIdx, content, variableUsage, report>>

\* the .env file is read and parsed, the usage tracking initialised
ScanReadEnv ==
    /\ spc = "start"
    /\ \E names \in EnvNameLists :
         /\ envNames' = names
         /\ variableUsage' =
                [i \in 1..Len(names) |->
                    [name |-> names[i], occurrences |-> <<>>, count |-> 0]]
    /\ spc' = "scanning"
    /\ UNCHANGED <<nScanFiles, scanIdx, content, report, scanExit>>

\* one iteration of the loop over files, the file being read
ScanFile ==
    /\ spc = "scanning"
    /\ scanIdx < nScanFiles
    /\ \E text \in SourceTexts :
         /\ content' = text
         /\ variableUsage' = ScanContent(variableUsage, envNames, scanIdx + 1, text)
    /\ scanIdx' = scanIdx + 1
    /\ UNCHANGED <<spc, envNames, nScanFiles, report, scanExit>>

\* one iteration of the loop over files, fs.readFile(file) rejecting: there
\* is no try around it, scanEnvUsage rejects and env-scan exits 1
ScanFileUnreadable ==
    /\ spc = "scanning"
    /\ scanIdx < nScanFiles
    /\ spc' = "read_failed"
    /\ scanExit' = 1
    /\ UNCHANGED <<envNames, nScanFiles, scanIdx, content, variableUsage, report>>

\* the report is generated and written; env-scan prints success
ScanWriteReport ==
    /\ spc = "scanning"
    /\ scanIdx = nScanFiles
    /\ \E format \in OutputFormats :
         report' = [written |-> TRUE, file |-> ReportFile(format),
                    usage |-> variableUsage]
    /\ spc' = "done"
    /\ scanExit' = 0
    /\ UNCHANGED <<envNames, nScanFiles, scanIdx, content, variableUsage>>

\* fs.writeFile of the report rejects
ScanWriteFails ==
    /\ spc = "scanning"
    /\ scanIdx = nScanFiles
    /\ spc' = "write_failed"
    /\ scanExit' = 1
    /\ UNCHANGED <<envNames, nScanFiles, scanIdx, content, variableUsage, report>>

NextScan ==
    \/ ScanEnvMissing /\ UNCHANGED <<docsVars, parseVars>>
    \/ ScanReadEnv /\ UNCHANGED <<docsVars, parseVars>>
    \/ ScanFile /\ UNCHANGED <<docsVars, parseVars>>
    \/ ScanFileUnreadable /\ UNCHANGED <<docsVars, parseVars>>
    \/ ScanWriteReport /\ UNCHANGED <<docsVars, parseVars>>
    \/ ScanWriteFails /\ UNCHANGED <<docsVars, parseVars>>

----------------------------------------------------------------------------
(* Primary mode: Compiler and generateDocs (src/index.js)                  *)

MaxDeclFiles == 2

T_Header == <<"#"," ","E","n","v","i","r","o","n","m","e","n","t"," ","V","a","r","i","a","b","l","e","s"," ","D","o","c","u","m","e","n","t","a","t","i","o","n","\n","\n">>
T_H2 == <<"#","#"," ">>
T_H3 == <<"#","#","#"," ">>
\* the character U+0060, which a TLA+ string cannot hold
BACKTICK == "U+0060"
T_Default == <<"*","*","D","e","f","a","u","l","t",":","*","*"," ",BACKTICK>>
T_NotSet == <<"N","o","t"," ","s","e","t">>
T_DefaultEnd == <<BACKTICK,"\n","\n">>
T_REPLACED == <<"R","E","P","L","A","C","E","D">>
T_Footer == <<"\n","_","e","n","d","_","\n">>
F_Env == <<".","e","n","v">>
F_CfgEnvDev == <<"c","f","g","/",".","e","n","v",".","d","e","v">>
F_EnvProd == <<".","e","n","v",".","p","r","o","d">>
F_DeepEnv == <<"a","/","b","/",".","e","n","v">>
X_SecretStar == <<"S","E","C","R","E","T","_","*">>
X_DbStar == <<"D","B","_","*">>
X_StarKey == <<"*","_","K","E","Y">>
K_SECRET_ == <<"S","E","C","R","E","T","_">>

\* ---- Compiler (src/index.js:13-42) ----

\* a handler is named by the position of the plugin that registered it
NoHandler == [registered |-> FALSE, plugin |-> 0]
Handler(i) == [registered |-> TRUE, plugin |-> i]

NewCompiler == [beforeParseFn |-> NoHandler, beforeOutputFn |-> NoHandler]

\* (a slip: a hook keeps the first handler registered)
tap_FirstWins(c, hook, fn) ==
    IF hook = "beforeParse"
    THEN IF c.beforeParseFn = NoHandler THEN [c EXCEPT !.beforeParseFn = fn] ELSE c
    ELSE IF c.beforeOutputFn = NoHandler THEN [c EXCEPT !.beforeOutputFn = fn] ELSE c

\* hooks.beforeParse.tap(name, fn) and hooks.beforeOutput.tap(name, fn)
tap(c, hook, fn) ==
    IF hook = "beforeParse" THEN [c EXCEPT !.beforeParseFn = fn]
    ELSE [c EXCEPT !.beforeOutputFn = fn]

\* (a slip: the handler's result is dropped)
runBeforeOutput_DropsResult(c, text, returned) == text

\* runBeforeOutput: `returned` is what the handler gives when called
runBeforeOutput(c, text, returned) ==
    IF c.beforeOutputFn # NoHandler THEN returned ELSE text

\* runBeforeParse: `returned` is what the handler gives when called
runBeforeParse(c, vs, returned) ==
    IF c.beforeParseFn # NoHandler THEN returned ELSE vs

\* ---- generateMarkdown (src/index.js:114-130) ----

\* path.basename: what follows the last "/"
Basename(path) ==
    LET slashes == {i \in 1..Len(path) : path[i] = "/"}
    IN  IF slashes = {} THEN path
        ELSE SubSeq(path, SetMax(slashes) + 1, Len(path))

VariableSection(e) ==
    T_H3 \o e.key \o <<"\n", "\n">>
    \o (IF e.description # <<>> THEN e.description \o <<"\n", "\n">> ELSE <<>>)
    \o T_Default \o (IF e.value # <<>> THEN e.value ELSE T_NotSet) \o T_DefaultEnd

FileSection(f) ==
    T_H2 \o Basename(f.file) \o <<"\n", "\n">>
    \o Concat([i \in 1..Len(f.variables) |-> VariableSection(f.variables[i])])

generateMarkdown(data) ==
    T_Header \o Concat([i \in 1..Len(data) |-> FileSection(data[i])])

\* ---- exclusion (src/index.js:163-172) ----

\* pattern.replace('*', '.*'): the first "*" only
ReplaceFirstStar(pattern) ==
    IF ~Includes(pattern, "*") THEN pattern
    ELSE SubSeq(pattern, 1, IndexOf(pattern, "*") - 1) \o <<".", "*">>
         \o SubSeq(pattern, IndexOf(pattern, "*") + 1, Len(pattern))

\* new RegExp(source) for sources made of name characters, "." and "*":
\* a sequence of atoms, each possibly starred
RECURSIVE Compile(_)
Compile(src) ==
    IF src = <<>> THEN <<>>
    ELSE LET atom == IF src[1] = "." THEN ANY ELSE src[1]
         IN  IF Len(src) >= 2 /\ src[2] = "*"
             THEN <<[atom |-> atom, star |-> TRUE]>>
                  \o Compile(SubSeq(src, 3, Len(src)))
             ELSE <<[atom |-> atom, star |-> FALSE]>> \o Compile(Tail(src))

\* the positions a match of re[k..] can end at, started at a position of P
RECURSIVE EndsFrom(_, _, _, _)
EndsFrom(re, k, str, P) ==
    IF k > Len(re) \/ P = {} THEN P
    ELSE IF re[k].star
    THEN EndsFrom(re, k + 1, str,
            {q \in 1..(Len(str) + 1) :
                \E q0 \in P : /\ q0 <= q
                              /\ \A j \in q0..(q - 1) : ElemMatches(re[k].atom, str[j])})
    ELSE EndsFrom(re, k + 1, str,
            {q0 + 1 : q0 \in {x \in P : x <= Len(str) /\ ElemMatches(re[k].atom, str[x])}})

\* key.match(new RegExp(pattern.replace('*', '.*'))): a match anywhere
KeyMatches(key, pattern) ==
    EndsFrom(Compile(ReplaceFirstStar(pattern)), 1, key, 1..(Len(key) + 1)) # {}

\* for each pattern, every key of the mapping that matches is deleted
RECURSIVE ExcludeVariables(_, _)
ExcludeVariables(vs, patterns) ==
    IF patterns = <<>> THEN vs
    ELSE ExcludeVariables(
            SelectSeq(vs, LAMBDA e : ~KeyMatches(e.key, Head(patterns))),
            Tail(patterns))

\* ---- the inputs of a run ----

\* the modules under ./plugins the configuration may name: whether
\* require() and the constructor succeed, and the hooks apply() taps
PluginModule(name) ==
    CASE name = "core-plugin"    -> [load |-> "not_found", taps |-> <<>>]
      [] name = "broken-plugin"  -> [load |-> "constructor_throws", taps |-> <<>>]
      [] name = "example-plugin" -> [load |-> "ok", taps |-> <<"beforeParse", "beforeOutput">>]
      [] name = "usage-plugin"   -> [load |-> "ok", taps |-> <<"beforeParse">>]
      [] name = "toc-plugin"     -> [load |-> "ok", taps |-> <<"beforeOutput">>]

PluginLists ==
    { <<>>,
      <<"core-plugin">>,
      <<"example-plugin">>,
      <<"core-plugin", "example-plugin">>,
      <<"example-plugin", "broken-plugin">>,
      <<"example-plugin", "toc-plugin">>,
      <<"toc-plugin", "usage-plugin">>,
      <<"usage-plugin", "broken-plugin", "example-plugin">> }

ExcludeConfigs == { <<>>, <<X_SecretStar>>, <<X_DbStar, X_StarKey>> }

DeclFileNames == <<F_Env, F_CfgEnvDev, F_EnvProd, F_DeepEnv>>

D_Api ==
    << [comments |-> <<T_ApiKeyComment>>, key |-> K_API_KEY, plain |-> TRUE],
       [comments |-> <<>>, key |-> K_DB_HOST, plain |-> FALSE] >>

D_Secrets ==
    << [comments |-> <<>>, key |-> K_SECRET_TOKEN, plain |-> TRUE],
       [comments |-> <<T_ApiKeyComment>>, key |-> K_MY_SECRET_KEY, plain |-> FALSE],
       [comments |-> <<>>, key |-> K_SECRET_, plain |-> TRUE] >>

\* what reading a declaration file can give
DeclReads ==
    { Unreadable, Readable(FileText(D_Api)), Readable(FileText(D_Secrets)) }

Configs ==
    [ plugins : PluginLists, exclude : ExcludeConfigs ]

\* what findEnvFiles may return: distinct paths
DiscoveredFiles == {SubSeq(DeclFileNames, 1, n) : n \in 0..MaxDeclFiles}

Event(op, at, handler, text) ==
    [op |-> op, at |-> at, handler |-> handler, text |-> text]

InitDocs ==
    /\ pc = "start"
    /\ config = None
    /\ compiler = None
    /\ pluginIdx = 0
    /\ tapIdx = 0
    /\ files = <<>>
    /\ fileIdx = 0
    /\ variables = <<>>
    /\ envData = <<>>
    /\ markdown = <<>>
    /\ baseline = <<>>
    /\ outFile = NotWritten
    /\ exitCode = None
    /\ events = <<>>
    \* the usage-audit mode is not running
    /\ spc = "idle"
    /\ envNames = <<>>
    /\ nScanFiles = 0
    /\ scanIdx = 0
    /\ content = <<>>
    /\ variableUsage = <<>>
    /\ report = [written |-> FALSE, file |-> None, usage |-> <<>>]
    /\ scanExit = None
    /\ blocks = <<>>
    /\ declText = <<>>
    /\ parsed = [state |-> "idle", variables |-> <<>>]

\* ---- generateDocs (src/index.js:133-194), an action per step ----

\* loadConfig: require(configPath) throws, the process exits with status 1
LoadConfigFails ==
    /\ pc = "start"
    /\ pc' = "exited"
    /\ exitCode' = 1
    /\ UNCHANGED <<files, config, compiler, pluginIdx, tapIdx, fileIdx, variables,
                   envData, markdown, baseline, outFile, events>>

\* loadConfig returns the configuration; the Compiler is constructed
LoadConfig ==
    /\ pc = "start"
    /\ config' \in Configs
    /\ compiler' = NewCompiler
    /\ pc' = "plugins"
    /\ UNCHANGED <<files, pluginIdx, tapIdx, fileIdx, variables, envData, markdown,
                   baseline, outFile, exitCode, events>>

CurrentPlugin == PluginModule(config.plugins[pluginIdx + 1])

\* (a slip: a plugin that fails to load ends the loading loop)
LoadPluginFails_StopsLoading ==
    /\ pc = "plugins"
    /\ pluginIdx < Len(config.plugins)
    /\ CurrentPlugin.load # "ok"
    /\ events' = Append(events, Event("pluginError", pluginIdx + 1, NoHandler, <<>>))
    /\ pluginIdx' = Len(config.plugins)
    /\ UNCHANGED <<files, pc, config, compiler, tapIdx, fileIdx, variables, envData,
                   markdown, baseline, outFile, exitCode>>

\* require() or the constructor throws: the catch reports it, the loop goes on
LoadPluginFails ==
    /\ pc = "plugins"
    /\ pluginIdx < Len(config.plugins)
    /\ CurrentPlugin.load # "ok"
    /\ events' = Append(events, Event("pluginError", pluginIdx + 1, NoHandler, <<>>))
    /\ pluginIdx' = pluginIdx + 1
    /\ UNCHANGED <<files, pc, config, compiler, tapIdx, fileIdx, variables, envData,
                   markdown, baseline, outFile, exitCode>>

\* the module is required and the plugin constructed; apply() starts
LoadPlugin ==
    /\ pc = "plugins"
    /\ pluginIdx < Len(config.plugins)
    /\ CurrentPlugin.load = "ok"
    /\ pc' = "apply"
    /\ tapIdx' = 0
    /\ UNCHANGED <<files, config, compiler, pluginIdx, fileIdx, variables, envData,
                   markdown, baseline, outFile, exitCode, events>>

\* one tap call of apply(): the handler is named by the plugin's position
TapHook ==
    /\ pc = "apply"
    /\ tapIdx < Len(CurrentPlugin.taps)
    /\ compiler' = tap(compiler, CurrentPlugin.taps[tapIdx + 1], Handler(pluginIdx + 1))
    /\ tapIdx' = tapIdx + 1
    /\ events' = Append(events,
                   Event("tap", pluginIdx + 1, Handler(pluginIdx + 1), <<>>))
    /\ UNCHANGED <<files, pc, config, pluginIdx, fileIdx, variables, envData,
                   markdown, baseline, outFile, exitCode>>

\* apply() returns; the loop moves to the next plugin
ApplyReturns ==
    /\ pc = "apply"
    /\ tapIdx = Len(CurrentPlugin.taps)
    /\ pluginIdx' = pluginIdx + 1
    /\ pc' = "plugins"
    /\ UNCHANGED <<files, config, compiler, tapIdx, fileIdx, variables, envData,
                   markdown, baseline, outFile, exitCode, events>>

\* the plugins are gone through; findEnvFiles gives the files
FindEnvFiles ==
    /\ pc = "plugins"
    /\ pluginIdx = Len(config.plugins)
    /\ files' \in DiscoveredFiles
    /\ pc' = "parse"
    /\ fileIdx' = 0
    /\ UNCHANGED <<config, compiler, pluginIdx, tapIdx, variables, envData,
                   markdown, baseline, outFile, exitCode, events>>

\* (a slip: the mapping goes to the exclusion step without the handler run)
ParseDeclFile_SkipsHook ==
    /\ pc = "parse"
    /\ fileIdx < Len(files)
    /\ \E read \in DeclReads : variables' = parseEnvFile(read)
    /\ events' = Append(events, Event("parseEnvFile", fileIdx + 1, NoHandler, <<>>))
    /\ pc' = "filter"
    /\ UNCHANGED <<files, config, compiler, pluginIdx, tapIdx, fileIdx, envData,
                   markdown, baseline, outFile, exitCode>>

\* variables = await parseEnvFile(file)
ParseDeclFile ==
    /\ pc = "parse"
    /\ fileIdx < Len(files)
    /\ \E read \in DeclReads : variables' = parseEnvFile(read)
    /\ events' = Append(events, Event("parseEnvFile", fileIdx + 1, NoHandler, <<>>))
    /\ pc' = "hook"
    /\ UNCHANGED <<files, config, compiler, pluginIdx, tapIdx, fileIdx, envData,
                   markdown, baseline, outFile, exitCode>>

\* what a beforeParse handler may give back: the mapping as it is, or with
\* a variable of empty value added
HandlerMappings(vs) == {vs, ObjSet(vs, K_SECRET_TOKEN, <<>>, <<>>)}

\* variables = await compiler.runBeforeParse(variables), the handler returning
RunBeforeParse ==
    /\ pc = "hook"
    /\ \E returned \in HandlerMappings(variables) :
         variables' = runBeforeParse(compiler, variables, returned)
    /\ events' = IF compiler.beforeParseFn # NoHandler
                 THEN Append(events,
                        Event("beforeParse", fileIdx + 1, compiler.beforeParseFn, <<>>))
                 ELSE events
    /\ pc' = "filter"
    /\ UNCHANGED <<files, config, compiler, pluginIdx, tapIdx, fileIdx, envData,
                   markdown, baseline, outFile, exitCode>>

\* the beforeParse handler throws: generateDocs rejects, the rejection is
\* given to console.error and the process ends with status 0
BeforeParseThrows ==
    /\ pc = "hook"
    /\ compiler.beforeParseFn # NoHandler
    /\ events' = Append(events,
                   Event("beforeParse", fileIdx + 1, compiler.beforeParseFn, <<>>))
    /\ pc' = "rejected"
    /\ exitCode' = 0
    /\ UNCHANGED <<files, config, compiler, pluginIdx, tapIdx, fileIdx, variables,
                   envData, markdown, baseline, outFile>>

\* the excluded variables are deleted and envData[file] = variables
FilterAndStore ==
    /\ pc = "filter"
    /\ variables' = ExcludeVariables(variables, config.exclude)
    /\ envData' = Append(envData, [file |-> files[fileIdx + 1],
                                   variables |-> variables'])
    /\ events' = Append(events, Event("exclude", fileIdx + 1, NoHandler, <<>>))
    /\ fileIdx' = fileIdx + 1
    /\ pc' = "parse"
    /\ UNCHANGED <<files, config, compiler, pluginIdx, tapIdx, markdown, baseline,
                   outFile, exitCode>>

\* markdown = generateMarkdown(envData)
GenerateBaseline ==
    /\ pc = "parse"
    /\ fileIdx = Len(files)
    /\ markdown' = generateMarkdown(envData)
    /\ baseline' = markdown'
    /\ events' = Append(events, Event("generateMarkdown", 0, NoHandler, <<>>))
    /\ pc' = "output"
    /\ UNCHANGED <<files, config, compiler, pluginIdx, tapIdx, fileIdx, variables,
                   envData, outFile, exitCode>>

\* what a beforeOutput handler may give back
HandlerTexts(text) == {T_REPLACED, text \o T_Footer}

\* markdown = await compiler.runBeforeOutput(markdown, envData)
RunBeforeOutput ==
    /\ pc = "output"
    /\ \E returned \in HandlerTexts(markdown) :
         /\ markdown' = runBeforeOutput(compiler, markdown, returned)
         /\ events' = IF compiler.beforeOutputFn # NoHandler
                      THEN Append(events,
                             Event("beforeOutput", 0, compiler.beforeOutputFn, returned))
                      ELSE events
    /\ pc' = "mkdir"
    /\ UNCHANGED <<files, config, compiler, pluginIdx, tapIdx, fileIdx, variables,
                   envData, baseline, outFile, exitCode>>

\* the beforeOutput handler throws
BeforeOutputThrows ==
    /\ pc = "output"
    /\ compiler.beforeOutputFn # NoHandler
    /\ events' = Append(events,
                   Event("beforeOutput", 0, compiler.beforeOutputFn, <<>>))
    /\ pc' = "rejected"
    /\ exitCode' = 0
    /\ UNCHANGED <<files, config, compiler, pluginIdx, tapIdx, fileIdx, variables,
                   envData, markdown, baseline, outFile>>

\* await fs.mkdir(outputDir, {recursive: true})
MakeOutputDir ==
    /\ pc = "mkdir"
    /\ events' = Append(events, Event("mkdir", 0, NoHandler, <<>>))
    /\ pc' = "write"
    /\ UNCHANGED <<files, config, compiler, pluginIdx, tapIdx, fileIdx, variables,
                   envData, markdown, baseline, outFile, exitCode>>

\* fs.mkdir rejects
MakeOutputDirFails ==
    /\ pc = "mkdir"
    /\ pc' = "rejected"
    /\ exitCode' = 0
    /\ UNCHANGED <<files, config, compiler, pluginIdx, tapIdx, fileIdx, variables,
                   envData, markdown, baseline, outFile, events>>

\* await fs.writeFile(outputFile, markdown); success is printed
WriteOutput ==
    /\ pc = "write"
    /\ outFile' = [written |-> TRUE, content |-> markdown]
    /\ events' = Append(events, Event("writeFile", 0, NoHandler, <<>>))
    /\ pc' = "done"
    /\ exitCode' = 0
    /\ UNCHANGED <<files, config, compiler, pluginIdx, tapIdx, fileIdx, variables,
                   envData, markdown, baseline>>

\* fs.writeFile rejects
WriteOutputFails ==
    /\ pc = "write"
    /\ pc' = "rejected"
    /\ exitCode' = 0
    /\ UNCHANGED <<files, config, compiler, pluginIdx, tapIdx, fileIdx, variables,
                   envData, markdown, baseline, outFile, events>>

NextDocs ==
    \/ LoadConfigFails /\ UNCHANGED <<scanVars, parseVars>>
    \/ LoadConfig /\ UNCHANGED <<scanVars, parseVars>>
    \/ LoadPluginFails /\ UNCHANGED <<scanVars, parseVars>>
    \/ LoadPlugin /\ UNCHANGED <<scanVars, parseVars>>
    \/ TapHook /\ UNCHANGED <<scanVars, parseVars>>
    \/ ApplyReturns /\ UNCHANGED <<scanVars, parseVars>>
    \/ FindEnvFiles /\ UNCHANGED <<scanVars, parseVars>>
    \/ ParseDeclFile /\ UNCHANGED <<scanVars, parseVars>>
    \/ RunBeforeParse /\ UNCHANGED <<scanVars, parseVars>>
    \/ BeforeParseThrows /\ UNCHANGED <<scanVars, parseVars>>
    \/ FilterAndStore /\ UNCHANGED <<scanVars, parseVars>>
    \/ GenerateBaseline /\ UNCHANGED <<scanVars, parseVars>>
    \/ RunBeforeOutput /\ UNCHANGED <<scanVars, parseVars>>
    \/ BeforeOutputThrows /\ UNCHANGED <<scanVars, parseVars>>
    \/ MakeOutputDir /\ UNCHANGED <<scanVars, parseVars>>
    \/ MakeOutputDirFails /\ UNCHANGED <<scanVars, parseVars>>
    \/ WriteOutput /\ UNCHANGED <<scanVars, parseVars>>
    \/ WriteOutputFails /\ UNCHANGED <<scanVars, parseVars>>

NextParse ==
    \/ ParseReadable /\ UNCHANGED <<docsVars, scanVars>>
    \/ ParseUnreadable /\ UNCHANGED <<docsVars, scanVars>>

SpecParse ==
    InitParse /\ [][NextParse]_vars

Spec ==
    InitDocs /\ [][NextDocs]_vars

SpecScan ==
    InitScan /\ [][NextScan]_vars

----------------------------------------------------------------------------
(* Claims about parseEnvFile                                               *)

BlockDescription(b) == Join(b.comments, NL)

\* every block gave one variable, in order, carrying its own comment run
OneVariablePerBlock ==
    /\ Len(parsed.variables) = Len(blocks)
    /\ \A i \in 1..Len(blocks) :
          /\ parsed.variables[i].key = blocks[i].key
          /\ parsed.variables[i].value = BlockValue(blocks[i])
          /\ parsed.variables[i].description = BlockDescription(blocks[i])

DistinctOrdinaryKeys ==
    /\ \A i, j \in 1..Len(blocks) : i # j => blocks[i].key # blocks[j].key
    /\ \A i \in 1..Len(blocks) : blocks[i].key # PROTO

\* C6 as stated: for any declaration file made of N blocks, parseEnvFile
\* returns exactly N variables, each with exactly the comment lines of its
\* own block as description.
C6_AnyBlocksGiveNVariables ==
    parsed.state = "parsed" => OneVariablePerBlock

\* C6 amended: for a declaration file made of N blocks whose keys are
\* pairwise distinct and none of which is __proto__, parseEnvFile returns
\* exactly N variables, each with the comment lines of its own block (and
\* of no other block) as description.
C6_DistinctKeysGiveNVariables ==
    (parsed.state = "parsed" /\ DistinctOrdinaryKeys) => OneVariablePerBlock

\* two blocks with comments and distinct keys were parsed
C6_Witness ==
    /\ parsed.state = "parsed"
    /\ DistinctOrdinaryKeys
    /\ Len(blocks) = 2
    /\ \A i \in 1..2 : blocks[i].comments # <<>>
    /\ blocks[1].comments # blocks[2].comments
    /\ ~blocks[2].plain

----------------------------------------------------------------------------
(* Claims about scanEnvUsage                                               *)

IdentChars ==
    {"A","B","C","D","E","F","G","H","I","J","K","L","M","N","O","P","Q","R",
     "S","T","U","V","W","X","Y","Z","a","b","c","d","e","f","g","h","i","j",
     "k","l","m","n","o","p","q","r","s","t","u","v","w","x","y","z","0","1",
     "2","3","4","5","6","7","8","9","_","$"}

\* an access whose identifier is exactly the name: an alternative that ends
\* with the name must not be followed by an identifier character
ExactMatchesAt(pat, s, i) ==
    /\ MatchesAt(pat, s, i)
    /\ pat.open => \/ i + Len(pat.elems) > Len(s)
                   \/ s[i + Len(pat.elems)] \notin IdentChars

ExactMatchLenAt(pats, s, i) ==
    LET hit == {k \in 1..Len(pats) : ExactMatchesAt(pats[k], s, i)}
    IN  IF hit = {} THEN 0 ELSE Len(pats[SetMin(hit)].elems)

RECURSIVE ExactCountFrom(_, _, _)
ExactCountFrom(pats, s, i) ==
    IF i > Len(s) THEN 0
    ELSE LET n == ExactMatchLenAt(pats, s, i)
         IN  IF n > 0 THEN 1 + ExactCountFrom(pats, s, i + n)
             ELSE ExactCountFrom(pats, s, i + 1)

ExactCount(text, variable) == ExactCountFrom(UsagePatterns(variable), text, 1)

\* the count recorded for `file` in a variable's occurrences, 0 when none
RECURSIVE SumCounts(_)
SumCounts(occs) ==
    IF occs = <<>> THEN 0 ELSE Head(occs).count + SumCounts(Tail(occs))

CountInFile(usage, file) ==
    SumCounts(SelectSeq(usage.occurrences, LAMBDA o : o.file = file))

\* C1: only accesses whose identifier is exactly V are counted for V: after
\* a file is scanned, the count recorded for that file and V is the number
\* of accesses in its content whose identifier is exactly V.
C1_OnlyExactIdentifierCounted ==
    (spc # "idle" /\ scanIdx >= 1) =>
        \A i \in 1..Len(envNames) :
            CountInFile(variableUsage[i], scanIdx) = ExactCount(content, envNames[i])

\* C4: a scanned file that cannot be read never aborts the run: unless the
\* .env file is missing or the report cannot be written, the run ends with
\* every file gone through and the report written.
C4_UnreadableFileNeverAborts ==
    spc \notin {"idle", "start", "scanning", "env_missing", "write_failed"} =>
        /\ scanIdx = nScanFiles
        /\ report.written
        /\ scanExit = 0

\* C5: for every variable, at every point during and after scanning, the
\* total count is the sum of the counts of its recorded occurrences; a file
\* without a match adds no occurrence, so a variable never matched has
\* count 0 and no occurrence.
C5_TotalIsSumOfOccurrences ==
    \A i \in 1..Len(variableUsage) :
        /\ variableUsage[i].count = SumCounts(variableUsage[i].occurrences)
        /\ \A k \in 1..Len(variableUsage[i].occurrences) :
              /\ variableUsage[i].occurrences[k].count > 0
              /\ variableUsage[i].occurrences[k].file \in 1..scanIdx
        /\ (scanIdx >= 1 /\ MatchCount(content, envNames[i]) = 0) =>
              CountInFile(variableUsage[i], scanIdx) = 0
        /\ variableUsage[i].occurrences = <<>> => variableUsage[i].count = 0
        /\ report.written => report.usage = variableUsage

\* two files were scanned, one variable matched in both and one in none,
\* and the report is written
C5_Witness ==
    /\ spc = "done"
    /\ scanIdx = 2
    /\ \E i, j \in 1..Len(variableUsage) :
          /\ Len(variableUsage[i].occurrences) = 2
          /\ variableUsage[i].count >= 3
          /\ variableUsage[j].occurrences = <<>>
          /\ variableUsage[j].count = 0

----------------------------------------------------------------------------
(* Claims about the primary mode                                           *)

Terminated == pc \in {"done", "rejected", "exited"}

\* generateDocs has the configuration and the Compiler
Configured == pc \notin {"idle", "start", "exited"}

HasPrefix(str, prefix) ==
    Len(str) >= Len(prefix) /\ SubSeq(str, 1, Len(prefix)) = prefix

Range(f) == {f[i] : i \in DOMAIN f}

\* C2: with exclude = ["SECRET_*"], the exclusion step of a file removes
\* every variable whose name starts with SECRET_ and keeps every other
\* variable (MY_SECRET_KEY among them) with its value and description.
C2_SecretStarKeepsOtherNames ==
    [][ (pc = "filter" /\ pc' = "parse" /\ config.exclude = <<X_SecretStar>>) =>
            envData'[Len(envData')].variables =
                SelectSeq(variables, LAMBDA e : ~HasPrefix(e.key, K_SECRET_)) ]_vars

\* C3: in primary mode the exit status is 0 only on success: a run that
\* ended otherwise than by writing the output file has a non-zero status.
C3_ExitZeroOnlyOnSuccess ==
    Terminated => (exitCode = 0 => (pc = "done" /\ outFile.written))

EventCount(op, at) ==
    Cardinality({k \in 1..Len(events) : events[k].op = op /\ events[k].at = at})

ExcludedBefore(k) ==
    Cardinality({j \in 1..(k - 1) : events[j].op = "exclude"})

\* C7: the beforeParse handler is invoked once per declaration file, right
\* after that file is parsed and before its exclusion filtering (which also
\* applies to what the handler returned); the beforeOutput handler is
\* invoked once, after every file is parsed and filtered and the baseline
\* rendered, and before the output file is written. A run that writes the
\* file over k files has made k beforeParse calls and one beforeOutput call.
C7_HookCallsInOrder ==
    Configured =>
      /\ \A k \in 1..Len(events) :
           /\ events[k].op = "beforeParse" =>
                /\ k > 1
                /\ events[k - 1].op = "parseEnvFile"
                /\ events[k - 1].at = events[k].at
                /\ ExcludedBefore(k) = events[k].at - 1
           /\ (events[k].op = "exclude" /\ compiler.beforeParseFn.registered) =>
                /\ k > 1
                /\ events[k - 1].op = "beforeParse"
                /\ events[k - 1].at = events[k].at
           /\ events[k].op = "beforeOutput" =>
                /\ k > 1
                /\ events[k - 1].op = "generateMarkdown"
                /\ ExcludedBefore(k) = Len(files)
                /\ \A j \in 1..k : events[j].op \notin {"mkdir", "writeFile"}
           /\ (events[k].op = "mkdir" /\ compiler.beforeOutputFn.registered) =>
                /\ k > 1
                /\ events[k - 1].op = "beforeOutput"
      /\ \A f \in 1..Len(files) : EventCount("beforeParse", f) <= 1
      /\ EventCount("beforeOutput", 0) <= 1
      /\ \A i \in 1..Len(envData) : \A j \in 1..Len(envData[i].variables) :
            \A x \in 1..Len(config.exclude) :
                ~KeyMatches(envData[i].variables[j].key, config.exclude[x])
      /\ pc = "done" =>
            /\ compiler.beforeParseFn.registered =>
                  \A f \in 1..Len(files) : EventCount("beforeParse", f) = 1
            /\ compiler.beforeOutputFn.registered =>
                  EventCount("beforeOutput", 0) = 1
            /\ events[Len(events)].op = "writeFile"

\* two files were processed with both handlers registered and an exclusion
\* configured, each file had its beforeParse call, and the file is written
C7_Witness ==
    /\ pc = "done"
    /\ Len(files) = 2
    /\ compiler.beforeParseFn.registered
    /\ compiler.beforeOutputFn.registered
    /\ config.exclude = <<X_SecretStar>>
    /\ EventCount("beforeParse", 1) = 1
    /\ EventCount("beforeParse", 2) = 1
    /\ \E i \in 1..2 : envData[i].variables # <<>>

\* C8: when a beforeOutput handler is registered, the content written is
\* exactly the text it returned, whatever the baseline; when none is, the
\* content written is exactly the baseline Markdown.
C8_WrittenIsHandlerTextOrBaseline ==
    outFile.written =>
      /\ baseline = generateMarkdown(envData)
      /\ IF compiler.beforeOutputFn.registered
         THEN \E k \in 1..Len(events) :
                 /\ events[k].op = "beforeOutput"
                 /\ outFile.content = events[k].text
         ELSE outFile.content = baseline

\* a handler returned "REPLACED" over a baseline that documents a variable
C8_Witness ==
    /\ outFile.written
    /\ compiler.beforeOutputFn.registered
    /\ outFile.content = T_REPLACED
    /\ \E i \in 1..Len(envData) : envData[i].variables # <<>>
    /\ Len(baseline) > Len(T_Header)

LoadsOk(i) == PluginModule(config.plugins[i]).load = "ok"

TapsOf(i) == PluginModule(config.plugins[i]).taps

\* the last plugin of the list that loads and taps `hook`
LastLoadedTapper(hook) ==
    LET tappers == {i \in 1..Len(config.plugins) :
                       LoadsOk(i) /\ hook \in Range(TapsOf(i))}
    IN  IF tappers = {} THEN NoHandler ELSE Handler(SetMax(tappers))

\* C9: a plugin that fails to load is reported and skipped without
\* aborting: once the loading loop is over every plugin of the list has
\* been gone through, each failing one reported once, each other one
\* applied, and the handlers are those of the plugins that loaded.
C9_FailedPluginIsSkipped ==
    (Configured /\ pc \notin {"plugins", "apply"}) =>
      /\ pluginIdx = Len(config.plugins)
      /\ \A i \in 1..Len(config.plugins) :
            /\ EventCount("pluginError", i) = (IF LoadsOk(i) THEN 0 ELSE 1)
            /\ EventCount("tap", i) = (IF LoadsOk(i) THEN Len(TapsOf(i)) ELSE 0)
      /\ compiler.beforeParseFn = LastLoadedTapper("beforeParse")
      /\ compiler.beforeOutputFn = LastLoadedTapper("beforeOutput")

\* a plugin failed between two that loaded; the run went on and wrote the
\* file with the handlers of the later plugin
C9_Witness ==
    /\ pc = "done"
    /\ \E i, j, k \in 1..Len(config.plugins) :
          /\ i < j /\ j < k
          /\ LoadsOk(i) /\ ~LoadsOk(j) /\ LoadsOk(k)
          /\ compiler.beforeOutputFn = Handler(k)
          /\ EventCount("beforeOutput", 0) = 1

\* the tap calls made so far, as <<plugin, hook>>
TapsMade ==
    LET applied == {x \in 1..pluginIdx : LoadsOk(x)}
        earlier == UNION {{<<i, TapsOf(i)[t]>> : t \in 1..Len(TapsOf(i))} :
                            i \in applied}
        current == IF pc = "apply"
                   THEN {<<pluginIdx + 1, TapsOf(pluginIdx + 1)[t]>> : t \in 1..tapIdx}
                   ELSE {}
    IN  earlier \cup current

LastTapMade(hook) ==
    LET who == {p[1] : p \in {q \in TapsMade : q[2] = hook}}
    IN  IF who = {} THEN NoHandler ELSE Handler(SetMax(who))

\* C10: each extension point retains one handler: at any time the handler
\* of a hook is the one its last registration gave (so a registration on
\* one hook leaves the other hook's handler as it was), and every call of a
\* hook runs that handler, never one registered earlier.
C10_LastRegistrationWins ==
    Configured =>
      /\ compiler.beforeParseFn = LastTapMade("beforeParse")
      /\ compiler.beforeOutputFn = LastTapMade("beforeOutput")
      /\ \A k \in 1..Len(events) :
            events[k].op \in {"beforeParse", "beforeOutput"} =>
                events[k].handler = LastLoadedTapper(events[k].op)

\* two plugins registered on beforeOutput, only the first on beforeParse;
\* both hooks were called
C10_Witness ==
    /\ pc = "done"
    /\ compiler.beforeParseFn = Handler(1)
    /\ compiler.beforeOutputFn = Handler(2)
    /\ <<1, "beforeOutput">> \in TapsMade
    /\ \E k \in 1..Len(events) :
          events[k].op = "beforeOutput" /\ events[k].handler = Handler(2)
    /\ \E k \in 1..Len(events) :
          events[k].op = "beforeParse" /\ events[k].handler = Handler(1)

====
